---------------------------- MODULE Spec2Model ----------------------------
(***************************************************************************)
(* A model of steamtoolsadder_gui.py: the SteamToolsDownloader operations  *)
(* (catalog lookup, archive fetch, install, process control) and the       *)
(* SteamToolsInstaller pipeline (start_download, the worker threads and    *)
(* the callbacks they schedule on the UI thread with root.after).          *)
(*                                                                         *)
(* Text is a sequence of symbols.  A symbol is one character, except for   *)
(* the three literals the code searches for, which are single symbols:     *)
(*   "S" = 'store.steampowered.com', "C" = 'steamcommunity.com',           *)
(*   "P" = '/app/', and "sup2" = the character U+00B2 (superscript two),   *)
(* for which str.isdigit() is true while int() raises ValueError.          *)
(***************************************************************************)
EXTENDS Integers, Sequences, FiniteSets, TLC

VARIABLES
    games_cache,    \* SteamToolsDownloader.games_cache: lowercased name -> appid
    fetches,        \* number of GETs issued to the catalog endpoint
    steam_folder,   \* SteamToolsDownloader._steam_folder is set (cached)
    fs,             \* the filesystem: staging directory and Steam folders
    is_processing,  \* SteamToolsInstaller.is_processing
    btn_enabled,    \* install_btn.is_enabled
    steamtools_exe, \* downloader.steamtools_exe was found at startup
    afterq,         \* callbacks scheduled with root.after(0, ...), FIFO
    runs,           \* per accepted start request: its worker and history
    nruns,          \* number of start requests accepted so far
    popups,         \* runs whose selection dialog is open
    io              \* the last call of a downloader operation: inputs and result;
                    \* in the pipeline, since the last accepted request: the
                    \* files the last install copied, then the restart calls
                    \* that failed after it

vars == <<games_cache, fetches, steam_folder, fs, is_processing, btn_enabled,
          steamtools_exe, afterq, runs, nruns, popups, io>>

\* the fields of the model's records; every record below lists its fields in
\* this order
FieldOrder ==
    [fs : {}, op : {}, n : {}, query : {}, search : {}, dl : {},
     app_id : {}, before : {}, resp : {}, env : {}, found : {}, i : {},
     j : {}, k : {}, dir : {}, name : {}, ext : {}, from : {}, appid : {},
     kind : {}, apps : {}, id : {}, matches : {}, result : {},
     extracted : {}, failing : {}, mkdir_fail : {}, rmtree_fail : {},
     subLast : {}, ret : {}, cache : {}, fetched : {}, failedBefore : {},
     failed : {}, loads : {}, log : {}, attempted : {}, fetch_ret : {},
     copy_ret : {}, copy_log : {}, shown : {}, closed : {}, trace : {},
     cb : {}, run : {}, arg : {}, downloads : {}, staged : {}, zips : {},
     root : {}, stplug_dir : {}, depot_dir : {}, stplug : {}, depot : {},
     all_failed : {}, installed : {}]

-----------------------------------------------------------------------------
(* Bounds of the model *)

\* start requests accepted in one behaviour of the pipeline
MaxRuns == 2
\* free-text / numeric lookups in one behaviour of the catalog client
MaxLookups == 3
\* characters of a query handed to a single find_game call
MaxQueryLen == 4

-----------------------------------------------------------------------------
(* Text *)

Digits == <<"0", "1", "2">>

\* str.lower()
LowerSym(c) == IF c = "B" THEN "b" ELSE c
Lower(s) == [i \in 1..Len(s) |-> LowerSym(s[i])]

\* the characters \d matches and int() accepts
IsDecimal(c) == \E d \in 1..Len(Digits) : Digits[d] = c
DigitValue(c) == (CHOOSE d \in 1..Len(Digits) : Digits[d] = c) - 1

\* str.isdigit(): every character is a digit (superscripts included), and
\* there is at least one
IsDigitStr(s) == Len(s) > 0 /\ \A i \in 1..Len(s) : IsDecimal(s[i]) \/ s[i] = "sup2"

\* int(s) is defined when every character is a decimal digit
IntOk(s) == Len(s) > 0 /\ \A i \in 1..Len(s) : IsDecimal(s[i])
RECURSIVE IntOf(_)
IntOf(s) == IF Len(s) = 0 THEN 0
            ELSE 10 * IntOf(SubSeq(s, 1, Len(s) - 1)) + DigitValue(s[Len(s)])

\* str(n) for n >= 0
RECURSIVE StrOf(_)
StrOf(n) == IF n < 10 THEN <<Digits[n + 1]>>
            ELSE StrOf(n \div 10) \o <<Digits[(n % 10) + 1]>>

\* str.strip(): leading and trailing blanks removed
RECURSIVE LStrip(_)
LStrip(s) == IF Len(s) > 0 /\ s[1] = " " THEN LStrip(Tail(s)) ELSE s
RECURSIVE RStrip(_)
RStrip(s) == IF Len(s) > 0 /\ s[Len(s)] = " "
             THEN RStrip(SubSeq(s, 1, Len(s) - 1)) ELSE s
Strip(s) == RStrip(LStrip(s))

\* 'lit' in s
Contains(s, lit) == \E i \in 1..Len(s) : s[i] = lit

\* re.search(r'/app/(\d+)', s): the leftmost '/app/' followed by a digit,
\* and the longest run of digits after it; <<>> when there is no match
RECURSIVE DigitRun(_, _)
DigitRun(s, i) == IF i <= Len(s) /\ IsDecimal(s[i])
                  THEN <<s[i]>> \o DigitRun(s, i + 1) ELSE <<>>
AppPathMatch(s) ==
    LET starts == {i \in 1..Len(s) - 1 : s[i] = "P" /\ IsDecimal(s[i + 1])}
    IN  IF starts = {} THEN <<>>
        ELSE DigitRun(s, 1 + CHOOSE i \in starts : \A j \in starts : i <= j)

\* the order of str comparison, by code point
SymOrder == <<" ", "0", "1", "2", "B", "C", "P", "S", "a", "b", "sup2">>
Code(c) == CHOOSE k \in 1..Len(SymOrder) : SymOrder[k] = c
RECURSIVE StrLess(_, _)
StrLess(s, t) ==
    IF Len(t) = 0 THEN FALSE
    ELSE IF Len(s) = 0 THEN TRUE
    ELSE IF s[1] = t[1] THEN StrLess(Tail(s), Tail(t))
    ELSE Code(s[1]) < Code(t[1])

-----------------------------------------------------------------------------
(* difflib.SequenceMatcher(None, a, b).ratio() and get_close_matches.      *)
(* Positions are 0-based and ranges half-open, as in difflib.              *)

\* the length of the common run of a[i:ahi] and b[j:bhi]
RECURSIVE RunLen(_, _, _, _, _, _)
RunLen(a, b, i, j, ahi, bhi) ==
    IF i < ahi /\ j < bhi /\ a[i + 1] = b[j + 1]
    THEN 1 + RunLen(a, b, i + 1, j + 1, ahi, bhi) ELSE 0

\* find_longest_match: the longest block, the earliest in a, then in b
LongestMatch(a, b, alo, ahi, blo, bhi) ==
    LET cands == {[i |-> i, j |-> j, k |-> RunLen(a, b, i, j, ahi, bhi)] :
                     i \in alo..(ahi - 1), j \in blo..(bhi - 1)}
        Better(m, n) == \/ m.k > n.k
                        \/ m.k = n.k /\ m.i < n.i
                        \/ m.k = n.k /\ m.i = n.i /\ m.j <= n.j
    IN  IF cands = {} THEN [i |-> alo, j |-> blo, k |-> 0]
        ELSE CHOOSE m \in cands : \A n \in cands : Better(m, n)

\* get_matching_blocks: the total size of the matching blocks
RECURSIVE MatchSize(_, _, _, _, _, _)
MatchSize(a, b, alo, ahi, blo, bhi) ==
    LET m == LongestMatch(a, b, alo, ahi, blo, bhi)
    IN  IF m.k = 0 THEN 0
        ELSE m.k
             + (IF alo < m.i /\ blo < m.j
                THEN MatchSize(a, b, alo, m.i, blo, m.j) ELSE 0)
             + (IF m.i + m.k < ahi /\ m.j + m.k < bhi
                THEN MatchSize(a, b, m.i + m.k, ahi, m.j + m.k, bhi) ELSE 0)

\* ratio() = 2.0 * M / T, kept as the pair <<2M, T>>
RatioNum(a, b) == 2 * MatchSize(a, b, 0, Len(a), 0, Len(b))
RatioDen(a, b) == Len(a) + Len(b)

\* ratio() >= cutoff, the cutoff in tenths (0.7 is 7); ratio() is 1.0 when T = 0
CutoffTenths == 7
MaxMatches == 5
IsClose(x, word) ==
    IF RatioDen(x, word) = 0 THEN TRUE
    ELSE 10 * RatioNum(x, word) >= CutoffTenths * RatioDen(x, word)

\* (score, x) < (score', x') as heapq.nlargest compares the pairs
ScoredLess(x, y, word) ==
    LET nx == RatioNum(x, word) * RatioDen(y, word)
        ny == RatioNum(y, word) * RatioDen(x, word)
    IN  nx < ny \/ (nx = ny /\ StrLess(x, y))

\* get_close_matches(word, possibilities, n, cutoff): the best n of the
\* close ones, best first
RECURSIVE BestFirst(_, _, _)
BestFirst(S, word, n) ==
    IF S = {} \/ n = 0 THEN <<>>
    ELSE LET top == CHOOSE x \in S : \A y \in S \ {x} : ScoredLess(y, x, word)
         IN  <<top>> \o BestFirst(S \ {top}, word, n - 1)
get_close_matches(word, possibilities) ==
    BestFirst({x \in possibilities : IsClose(x, word)}, word, MaxMatches)

-----------------------------------------------------------------------------
(* Remote Catalog Client: get_app_list and find_game *)

\* the body of a successful answer of the catalog endpoint: ['applist']['apps']
CatalogApps ==
    << [name |-> <<"a", "B">>, appid |-> 1],
       [name |-> <<"a", "b", "b">>, appid |-> 2],
       [name |-> <<"b", "a">>, appid |-> 12],
       [name |-> <<"a", "b">>, appid |-> 21] >>

\* what requests.get + response.json() can give: an exception (timeout,
\* connection error, malformed body), the app list, or an empty app list
CatalogResponses ==
    { [kind |-> "error", apps |-> <<>>],
      [kind |-> "ok", apps |-> CatalogApps],
      [kind |-> "ok", apps |-> <<>>] }

EmptyCache == [k \in {} |-> 0]

\* {app['name'].lower(): app['appid'] for app in apps}: a later entry
\* replaces an earlier one with the same key
DictOfApps(apps) ==
    LET keys == {Lower(apps[i].name) : i \in 1..Len(apps)}
        last(k) == CHOOSE i \in 1..Len(apps) :
                      /\ Lower(apps[i].name) = k
                      /\ \A j \in 1..Len(apps) : Lower(apps[j].name) = k => j <= i
    IN  [k \in keys |-> apps[last(k)].appid]

\* get_app_list with the guard dropped: the endpoint is asked on every call
get_app_list_always(cache, resp) ==
    IF resp.kind = "ok"
    THEN [cache |-> DictOfApps(resp.apps), fetched |-> 1]
    ELSE [cache |-> cache, fetched |-> 1]

\* get_app_list: fetch when the cache is empty (falsy); an exception leaves
\* the cache as it was.  resp is the endpoint's answer if it is asked.
get_app_list(cache, resp) ==
    IF DOMAIN cache = {}
    THEN IF resp.kind = "ok"
         THEN [cache |-> DictOfApps(resp.apps), fetched |-> 1]
         ELSE [cache |-> cache, fetched |-> 1]
    ELSE [cache |-> cache, fetched |-> 0]

RetInt(n) == [kind |-> "int", id |-> n, matches |-> <<>>]
RetList(m) == [kind |-> "list", id |-> 0, matches |-> m]
RetNone == [kind |-> "none", id |-> 0, matches |-> <<>>]
RetRaise == [kind |-> "raise", id |-> 0, matches |-> <<>>]

\* the URL test with the community host left out
IsAppUrlStoreOnly(query) ==
    /\ Contains(query, "S")
    /\ AppPathMatch(query) # <<>>

\* the query names a store or community URL with an /app/<digits> segment
IsAppUrl(query) ==
    /\ Contains(query, "S") \/ Contains(query, "C")
    /\ AppPathMatch(query) # <<>>

\* find_game with a single near match taken as the answer instead of being
\* listed
find_game_auto_select(query, cache, resp) ==
    IF IsAppUrl(query)
    THEN [ret |-> RetInt(IntOf(AppPathMatch(query))), cache |-> cache, fetched |-> 0]
    ELSE IF IsDigitStr(query)
    THEN [ret |-> IF IntOk(query) THEN RetInt(IntOf(query)) ELSE RetRaise,
          cache |-> cache, fetched |-> 0]
    ELSE LET g == get_app_list(cache, resp)
             games == g.cache
             query_lower == Lower(query)
             matches == get_close_matches(query_lower, DOMAIN games)
         IN  [ret |-> IF DOMAIN games = {} THEN RetNone
                      ELSE IF query_lower \in DOMAIN games
                      THEN RetInt(games[query_lower])
                      ELSE IF Len(matches) = 1
                      THEN RetInt(games[matches[1]])
                      ELSE IF Len(matches) > 0
                      THEN RetList([i \in 1..Len(matches) |->
                                       <<matches[i], games[matches[i]]>>])
                      ELSE RetNone,
              cache |-> g.cache, fetched |-> g.fetched]

\* find_game: [ret, cache, fetched]
find_game(query, cache, resp) ==
    IF IsAppUrl(query)
    THEN [ret |-> RetInt(IntOf(AppPathMatch(query))), cache |-> cache, fetched |-> 0]
    ELSE IF IsDigitStr(query)
    THEN [ret |-> IF IntOk(query) THEN RetInt(IntOf(query)) ELSE RetRaise,
          cache |-> cache, fetched |-> 0]
    ELSE LET g == get_app_list(cache, resp)
             games == g.cache
             query_lower == Lower(query)
             matches == get_close_matches(query_lower, DOMAIN games)
         IN  [ret |-> IF DOMAIN games = {} THEN RetNone
                      ELSE IF query_lower \in DOMAIN games
                      THEN RetInt(games[query_lower])
                      ELSE IF Len(matches) > 0
                      THEN RetList([i \in 1..Len(matches) |->
                                       <<matches[i], games[matches[i]]>>])
                      ELSE RetNone,
              cache |-> g.cache, fetched |-> g.fetched]

\* the queries typed in a sequence of lookups: an id, a store URL, a name
\* of the catalog, a name with one near match, a name with two, an unknown
\* name, and a superscript digit
LookupQueries ==
    { <<"1">>, <<"S", "P", "2">>, <<"a", "B">>, <<"b", "b">>,
      <<"b", "a", "b">>, <<"a", "a">>, <<"sup2">> }

\* the filesystem before anything is staged or installed
NoFs == [downloads |-> FALSE, staged |-> {}, zips |-> {}, root |-> FALSE,
         stplug_dir |-> FALSE, depot_dir |-> FALSE, stplug |-> {}, depot |-> {}]

\* a sequence of find_game calls on one downloader
CatalogInit ==
    /\ games_cache = EmptyCache
    /\ fetches = 0
    /\ io = [op |-> "new", n |-> 0, failed |-> FALSE, loads |-> 0]
    /\ steam_folder = FALSE
    /\ fs = NoFs
    /\ is_processing = FALSE
    /\ btn_enabled = TRUE
    /\ steamtools_exe = TRUE
    /\ afterq = <<>>
    /\ runs = <<>>
    /\ nruns = 0
    /\ popups = {}

PipelineUnchanged ==
    UNCHANGED <<is_processing, btn_enabled, steamtools_exe, afterq, runs,
                nruns, popups>>

Lookup(query, resp) ==
    /\ io.n < MaxLookups
    /\ LET r == find_game(query, games_cache, resp)
       IN  /\ games_cache' = r.cache
           /\ fetches' = fetches + r.fetched
           /\ io' = [op |-> "find_game", n |-> io.n + 1, query |-> query,
                     before |-> games_cache, resp |-> resp, ret |-> r.ret,
                     fetched |-> r.fetched,
                     failedBefore |-> io.failed,
                     failed |-> io.failed \/ (r.fetched = 1 /\ resp.kind = "error"),
                     loads |-> io.loads +
                        (IF r.fetched = 1 /\ DOMAIN r.cache # {} THEN 1 ELSE 0)]
    /\ UNCHANGED <<steam_folder, fs>>
    /\ PipelineUnchanged

CatalogNext == \E query \in LookupQueries, resp \in CatalogResponses : Lookup(query, resp)

SpecCatalog == CatalogInit /\ [][CatalogNext]_vars

-----------------------------------------------------------------------------
(* One find_game call on a drawn query, cache and catalog answer *)

\* the characters of a query: the two host names, '/app/', a digit, a
\* letter and a capital letter
QuerySyms == {"S", "C", "P", "1", "a", "B"}

\* every query of at most MaxQueryLen characters
ResolveQueries == UNION {[1..n -> QuerySyms] : n \in 1..MaxQueryLen}

\* the endpoint's answers: those of CatalogResponses, and the app list
\* without the two entries named "ab"
ResolveResponses ==
    CatalogResponses
    \cup {[kind |-> "ok", apps |-> SubSeq(CatalogApps, 2, 3)]}

\* the cache before the call: empty, or loaded by an earlier call
ResolveInit ==
    /\ games_cache \in {EmptyCache, DictOfApps(CatalogApps)}
    /\ fetches = 0
    /\ io = [op |-> "new"]
    /\ steam_folder = FALSE
    /\ fs = NoFs
    /\ is_processing = FALSE
    /\ btn_enabled = TRUE
    /\ steamtools_exe = TRUE
    /\ afterq = <<>>
    /\ runs = <<>>
    /\ nruns = 0
    /\ popups = {}

Resolve(query, resp) ==
    /\ io.op = "new"
    /\ LET r == find_game(query, games_cache, resp)
       IN  /\ games_cache' = r.cache
           /\ fetches' = fetches + r.fetched
           /\ io' = [op |-> "find_game", query |-> query, before |-> games_cache,
                     resp |-> resp, ret |-> r.ret, fetched |-> r.fetched]
    /\ UNCHANGED <<steam_folder, fs>>
    /\ PipelineUnchanged

ResolveNext ==
    \E query \in ResolveQueries, resp \in ResolveResponses : Resolve(query, resp)

SpecResolve == ResolveInit /\ [][ResolveNext]_vars

-----------------------------------------------------------------------------
(* The filesystem.  A file is [dir, name, ext, from]: its directory below   *)
(* the staging directory ("" is the top), its base name and extension, and  *)
(* the app id of the archive its content came from.  fs.staged are the      *)
(* files of the staging directory "downloads", fs.zips the ids whose        *)
(* <id>.zip lies there, fs.root says a Steam folder exists at one of the    *)
(* probed paths, fs.stplug and fs.depot are the files of config/stplug-in   *)
(* and depotcache.                                                          *)

Dirs == <<"", "sub">>
BaseNames == << [name |-> "a", ext |-> "lua"], [name |-> "b", ext |-> "st"],
                [name |-> "c", ext |-> "manifest"], [name |-> "d", ext |-> "txt"] >>

\* every file a staging directory of the model can hold, before its origin
Entries == {[dir |-> Dirs[d], name |-> BaseNames[b].name, ext |-> BaseNames[b].ext] :
               d \in 1..Len(Dirs), b \in 1..Len(BaseNames)}

FileOf(e, app_id) == [dir |-> e.dir, name |-> e.name, ext |-> e.ext, from |-> app_id]
SamePath(f, g) == f.dir = g.dir /\ f.name = g.name /\ f.ext = g.ext
SameBase(f, g) == f.name = g.name /\ f.ext = g.ext

\* the entries of <app_id>.zip on the object store
ArchiveOf(app_id) ==
    CASE app_id = 1 -> { [dir |-> "", name |-> "a", ext |-> "lua"],
                         [dir |-> "", name |-> "c", ext |-> "manifest"] }
      [] app_id = 2 -> { [dir |-> "sub", name |-> "b", ext |-> "st"],
                         [dir |-> "", name |-> "d", ext |-> "txt"] }
      [] app_id = 12 -> { [dir |-> "", name |-> "d", ext |-> "txt"] }
      [] app_id = 21 -> { [dir |-> "sub", name |-> "a", ext |-> "lua"] }
      [] OTHER -> {}

\* what can happen to one download_appid_zip call: the mkdir of the staging
\* directory fails; the GET answers 404; the GET fails or answers another
\* error status; the body breaks off while it is written; the extraction
\* fails after the entries `extracted`; everything works
FetchEnvs(app_id) ==
    {[result |-> r, extracted |-> {}] : r \in {"mkdir_fail", "404", "error", "stream_fail"}}
    \cup {[result |-> "extract_fail", extracted |-> x] : x \in SUBSET ArchiveOf(app_id)}
    \cup {[result |-> "ok", extracted |-> ArchiveOf(app_id)]}

\* zipfile.extractall: an entry replaces the staged file at its path
Extract(staged, entries, app_id) ==
    {f \in staged : \A e \in entries : ~SamePath(f, e)}
    \cup {FileOf(e, app_id) : e \in entries}

\* download_appid_zip(app_id, "downloads"): [fs, ret, log]; ret is "True",
\* "False" or "raise" (the mkdir is outside the try)
download_appid_zip(app_id, f, env) ==
    IF env.result = "mkdir_fail" /\ ~f.downloads
    THEN [fs |-> f, ret |-> "raise", log |-> <<"[2/5] Downloading">>]
    ELSE LET f1 == [f EXCEPT !.downloads = TRUE]
             f2 == [f1 EXCEPT !.zips = @ \cup {app_id}]
         IN  CASE env.result = "404" ->
                    [fs |-> f1, ret |-> "False",
                     log |-> <<"[2/5] Downloading", "No data found for App ID">>]
               [] env.result = "stream_fail" ->
                    [fs |-> f2, ret |-> "False",
                     log |-> <<"[2/5] Downloading", "Error during download/extraction">>]
               [] env.result = "extract_fail" ->
                    [fs |-> [f2 EXCEPT !.staged = Extract(@, env.extracted, app_id)],
                     ret |-> "False",
                     log |-> <<"[2/5] Downloading", "Downloaded", "Extracting...",
                               "Error during download/extraction">>]
               [] env.result = "ok" ->
                    [fs |-> [f1 EXCEPT !.staged = Extract(@, env.extracted, app_id),
                                       !.zips = @ \ {app_id}],
                     ret |-> "True",
                     log |-> <<"[2/5] Downloading", "Downloaded", "Extracting...",
                               "Extracted successfully">>]
               [] env.result \in {"error", "mkdir_fail"} ->
                    [fs |-> f1, ret |-> "False",
                     log |-> <<"[2/5] Downloading", "Error during download/extraction">>]

\* find_steam_folder: the cached folder, or the first probed path that
\* exists; [found, cache]
find_steam_folder(cache, f) ==
    [found |-> cache \/ f.root, cache |-> cache \/ f.root]

\* Path.rglob lists a directory tree in the order the filesystem gives it:
\* the top directory's files before or after those of the subdirectory
Rank(f, subLast) ==
    LET d == CHOOSE k \in 1..Len(Dirs) : Dirs[k] = f.dir
        b == CHOOSE k \in 1..Len(BaseNames) :
                BaseNames[k].name = f.name /\ BaseNames[k].ext = f.ext
    IN  (IF subLast THEN d ELSE Len(Dirs) + 1 - d) * (Len(BaseNames) + 1) + b
RECURSIVE Listing(_, _)
Listing(S, subLast) ==
    IF S = {} THEN <<>>
    ELSE LET first == CHOOSE x \in S :
                         \A y \in S : Rank(x, subLast) <= Rank(y, subLast)
         IN  <<first>> \o Listing(S \ {first}, subLast)
rglob(f, ext, subLast) ==
    Listing({x \in (IF f.downloads THEN f.staged ELSE {}) : x.ext = ext}, subLast)

\* the copy loop with the try around the whole loop: the first failure
\* ends it
RECURSIVE CopyLoopAbort(_, _, _)
CopyLoopAbort(files, folder, failing) ==
    IF Len(files) = 0 THEN folder
    ELSE LET x == Head(files)
         IN  IF x \in failing THEN folder
             ELSE CopyLoopAbort(Tail(files),
                                {g \in folder : ~SameBase(g, x)} \cup {x}, failing)

\* the copy loop: shutil.copy2 of each file to folder / file_path.name, a
\* failure caught per file
RECURSIVE CopyLoop(_, _, _)
CopyLoop(files, folder, failing) ==
    IF Len(files) = 0 THEN folder
    ELSE LET x == Head(files)
         IN  CopyLoop(Tail(files),
                      IF x \in failing THEN folder
                      ELSE {g \in folder : ~SameBase(g, x)} \cup {x},
                      failing)

SeqToSet(q) == {q[i] : i \in 1..Len(q)}

\* what can happen to one copy_files_to_steam call: the copies that fail,
\* the mkdir that fails, whether rmtree fails, the listing order
InstallEnvs(f) ==
    [failing : SUBSET {x \in f.staged : x.ext \in {"lua", "st", "manifest"}},
     mkdir_fail : {"none", "stplug", "depot"},
     rmtree_fail : BOOLEAN,
     subLast : BOOLEAN]

\* copy_files_to_steam("downloads"): [fs, ret, cache, log, attempted]
copy_files_to_steam(f, cache, env) ==
    LET lua_files == rglob(f, "lua", env.subLast)
        manifest_files == rglob(f, "manifest", env.subLast)
        st_files == rglob(f, "st", env.subLast)
        sf == find_steam_folder(cache, f)
        files_to_copy == lua_files \o st_files
        made1 == [f EXCEPT !.stplug_dir = TRUE]
        made2 == [made1 EXCEPT !.depot_dir = TRUE]
        copied == [made2 EXCEPT
                     !.stplug = CopyLoop(files_to_copy, @, env.failing),
                     !.depot = CopyLoop(manifest_files, @, env.failing)]
        cleaned == IF env.rmtree_fail THEN copied
                   ELSE [copied EXCEPT !.downloads = FALSE, !.staged = {},
                                       !.zips = {}]
    IN  IF Len(lua_files) = 0 /\ Len(manifest_files) = 0 /\ Len(st_files) = 0
        THEN [fs |-> f, ret |-> "False", cache |-> cache,
              log |-> <<"No files found to copy.">>, attempted |-> {}]
        ELSE IF ~sf.found
        THEN [fs |-> f, ret |-> "False", cache |-> sf.cache,
              log |-> <<"[3/5] Copying", "Could not find Steam installation.">>,
              attempted |-> {}]
        ELSE IF env.mkdir_fail = "stplug" /\ ~f.stplug_dir
        THEN [fs |-> f, ret |-> "raise", cache |-> sf.cache,
              log |-> <<"[3/5] Copying">>, attempted |-> {}]
        ELSE IF env.mkdir_fail = "depot" /\ ~f.depot_dir
        THEN [fs |-> made1, ret |-> "raise", cache |-> sf.cache,
              log |-> <<"[3/5] Copying">>, attempted |-> {}]
        ELSE [fs |-> cleaned, ret |-> "True", cache |-> sf.cache,
              log |-> <<"[3/5] Copying">>
                      \o (IF env.failing # {} THEN <<"Failed">> ELSE <<>>)
                      \o <<"[4/5] Cleaning up">>
                      \o (IF env.rmtree_fail THEN <<"Could not delete downloads folder">>
                          ELSE <<"Deleted temporary files">>),
              attempted |-> SeqToSet(files_to_copy) \cup SeqToSet(manifest_files)]

-----------------------------------------------------------------------------
(* One download_appid_zip call on a drawn filesystem *)

FetchIds == {1, 2, 3, 12, 21}

\* the staging directory before the call: absent, or left by an earlier run
\* with some files and possibly an archive
FetchFs ==
    {NoFs} \cup
    {[NoFs EXCEPT !.downloads = TRUE, !.staged = {FileOf(e, 3) : e \in x}, !.zips = z] :
        x \in SUBSET {e \in Entries : e.dir = ""}, z \in {{}, {3}}}

FetchInit ==
    /\ fs \in FetchFs
    /\ io = [op |-> "new"]
    /\ games_cache = EmptyCache
    /\ fetches = 0
    /\ steam_folder = FALSE
    /\ is_processing = FALSE
    /\ btn_enabled = TRUE
    /\ steamtools_exe = TRUE
    /\ afterq = <<>>
    /\ runs = <<>>
    /\ nruns = 0
    /\ popups = {}

Fetch(app_id, env) ==
    /\ io.op = "new"
    /\ LET r == download_appid_zip(app_id, fs, env)
       IN  /\ fs' = r.fs
           /\ io' = [op |-> "download_appid_zip", app_id |-> app_id, before |-> fs,
                     env |-> env, ret |-> r.ret, log |-> r.log]
    /\ UNCHANGED <<games_cache, fetches, steam_folder>>
    /\ PipelineUnchanged

FetchNext == \E app_id \in FetchIds : \E env \in FetchEnvs(app_id) : Fetch(app_id, env)

SpecFetch == FetchInit /\ [][FetchNext]_vars

-----------------------------------------------------------------------------
(* One copy_files_to_steam call on a drawn filesystem *)

\* the filesystem before the call: any set of staged files; no Steam folder,
\* or one with or without its two subdirectories, found earlier or not
InstallFs ==
    {[NoFs EXCEPT !.downloads = d, !.staged = {FileOf(e, 1) : e \in x},
                  !.root = r, !.stplug_dir = r /\ sub, !.depot_dir = r /\ sub] :
        x \in SUBSET Entries, d \in BOOLEAN, r \in BOOLEAN, sub \in BOOLEAN}

InstallInit ==
    /\ fs \in {f \in InstallFs : f.staged # {} => f.downloads}
    /\ steam_folder \in {c \in BOOLEAN : c => fs.root}
    /\ io = [op |-> "new"]
    /\ games_cache = EmptyCache
    /\ fetches = 0
    /\ is_processing = FALSE
    /\ btn_enabled = TRUE
    /\ steamtools_exe = TRUE
    /\ afterq = <<>>
    /\ runs = <<>>
    /\ nruns = 0
    /\ popups = {}

Install(env) ==
    /\ io.op = "new"
    /\ LET r == copy_files_to_steam(fs, steam_folder, env)
       IN  /\ fs' = r.fs
           /\ steam_folder' = r.cache
           /\ io' = [op |-> "copy_files_to_steam", before |-> fs, env |-> env,
                     ret |-> r.ret, cache |-> steam_folder, log |-> r.log,
                     attempted |-> r.attempted]
    /\ UNCHANGED <<games_cache, fetches>>
    /\ PipelineUnchanged

InstallNext == \E env \in InstallEnvs(fs) : Install(env)

SpecInstall == InstallInit /\ [][InstallNext]_vars

-----------------------------------------------------------------------------
(* The pipeline: SteamToolsInstaller.  The UI thread runs the user's events *)
(* and, in the order they were scheduled, the callbacks the workers pass to *)
(* root.after(0, ...).  Callbacks that only write the log or the status     *)
(* label are left out.  A run is one accepted start request; runs[r].trace  *)
(* lists the stages it entered and the process-control calls it made.       *)

\* what the user types into the entry
PipelineQueries == { <<"1">>, <<"b", "b">>, <<"a", "a">>, <<"sup2">>, <<" ">> }

\* the catalog endpoint's answers during a pipeline run
PipelineResponses == { [kind |-> "error", apps |-> <<>>],
                       [kind |-> "ok", apps |-> CatalogApps] }

Callback(cb, r, arg) == [cb |-> cb, run |-> r, arg |-> arg]

NewRun(query) ==
    [query |-> query, search |-> "running", dl |-> "none", app_id |-> 0,
     matches |-> <<>>, fetch_ret |-> "", copy_ret |-> "", copy_log |-> <<>>,
     shown |-> {}, closed |-> "", trace |-> <<"Searching">>]

Init ==
    /\ games_cache = EmptyCache
    /\ fetches = 0
    /\ steam_folder = FALSE
    /\ \E r \in BOOLEAN, sub \in BOOLEAN :
          fs = [NoFs EXCEPT !.root = r, !.stplug_dir = r /\ sub,
                            !.depot_dir = r /\ sub]
    /\ is_processing = FALSE
    /\ steamtools_exe \in BOOLEAN
    /\ btn_enabled = steamtools_exe
    /\ afterq = <<>>
    /\ runs = <<>>
    /\ nruns = 0
    /\ popups = {}
    /\ io = [op |-> "pipeline"]

DownloaderUnchanged == UNCHANGED <<games_cache, fetches, steam_folder, fs, io>>

\* finish_processing
finish_processing ==
    /\ is_processing' = FALSE
    /\ btn_enabled' = TRUE

\* the entry's <Return> binding calls start_download whatever the button
\* shows; while a selection dialog holds the grab the main window gets no
\* event
StartRequested == popups = {}

\* start_download, a request while one is processed: ignored
StartRejectedBusy ==
    /\ StartRequested
    /\ is_processing
    /\ UNCHANGED vars

\* start_download without SteamTools.exe: an error box, nothing else
StartRejectedNoTools ==
    /\ StartRequested
    /\ ~is_processing
    /\ ~steamtools_exe
    /\ UNCHANGED vars

\* start_download with an empty entry: a warning box, nothing else
StartRejectedEmpty(query) ==
    /\ StartRequested
    /\ ~is_processing
    /\ steamtools_exe
    /\ Len(Strip(query)) = 0
    /\ UNCHANGED vars

\* start_download, the request accepted: the search thread is started
StartAccepted(query) ==
    /\ StartRequested
    /\ ~is_processing
    /\ steamtools_exe
    /\ Len(Strip(query)) > 0
    /\ nruns < MaxRuns
    /\ is_processing' = TRUE
    /\ btn_enabled' = FALSE
    /\ nruns' = nruns + 1
    /\ runs' = Append(runs, NewRun(Strip(query)))
    /\ io' = [op |-> "pipeline"]
    /\ UNCHANGED <<games_cache, fetches, steam_folder, fs, afterq, popups,
                   steamtools_exe>>

\* initial_search_thread: find_game and the callbacks scheduled on its result
Search(r, resp) ==
    /\ runs[r].search = "running"
    /\ LET g == find_game(runs[r].query, games_cache, resp)
           k == g.ret.kind
       IN  /\ games_cache' = g.cache
           /\ fetches' = fetches + g.fetched
           /\ afterq' = afterq \o
                CASE k = "int" -> <<Callback("download_thread_start", r, g.ret.id)>>
                  [] k = "list" -> <<Callback("show_match_selection", r, 0)>>
                  [] k = "none" -> <<Callback("msgbox", r, "Not Found"),
                                     Callback("finish_processing", r, 0)>>
                  [] k = "raise" -> <<Callback("msgbox", r, "Error"),
                                      Callback("finish_processing", r, 0)>>
           /\ runs' = [runs EXCEPT ![r].search = "done",
                                   ![r].matches = g.ret.matches]
    /\ UNCHANGED <<steam_folder, fs, io, is_processing, btn_enabled,
                   steamtools_exe, nruns, popups>>

\* download_thread_start: the download thread is started
download_thread_start(r, app_id) ==
    [runs EXCEPT ![r].dl = "download", ![r].app_id = app_id,
                 ![r].trace = Append(@, "Resolved")]

\* the UI thread runs the next scheduled callback
RunCallback ==
    /\ Len(afterq) > 0
    /\ LET c == Head(afterq)
       IN  /\ afterq' = Tail(afterq)
           /\ CASE c.cb = "download_thread_start" ->
                     /\ runs' = download_thread_start(c.run, c.arg)
                     /\ UNCHANGED <<is_processing, btn_enabled, popups>>
                [] c.cb = "show_match_selection" ->
                     /\ popups' = popups \cup {c.run}
                     /\ runs' = [runs EXCEPT ![c.run].trace =
                                                Append(@, "AwaitingSelection")]
                     /\ UNCHANGED <<is_processing, btn_enabled>>
                [] c.cb = "finish_processing" ->
                     /\ finish_processing
                     /\ UNCHANGED <<runs, popups>>
                [] c.cb = "msgbox" ->
                     /\ runs' = [runs EXCEPT ![c.run].shown = @ \cup {c.arg}]
                     /\ UNCHANGED <<is_processing, btn_enabled, popups>>
    /\ UNCHANGED <<steamtools_exe, nruns>>
    /\ DownloaderUnchanged

\* the id on_select reads back from the listbox line f"{name[:40]} (ID: {app_id})"
ListedId(match) == IntOf(StrOf(match[2]))

\* on_select: the dialog is closed and the download thread started
OnSelect(r, i) ==
    /\ r \in popups
    /\ i \in 1..Len(runs[r].matches)
    /\ popups' = popups \ {r}
    /\ runs' = [download_thread_start(r, ListedId(runs[r].matches[i]))
                   EXCEPT ![r].closed = "select"]
    /\ UNCHANGED <<is_processing, btn_enabled, steamtools_exe, afterq, nruns>>
    /\ DownloaderUnchanged

\* on_select when a Tk call in it raises: error box, dialog closed, reset
OnSelectError(r) ==
    /\ r \in popups
    /\ popups' = popups \ {r}
    /\ runs' = [runs EXCEPT ![r].closed = "error", ![r].shown = @ \cup {"Error"}]
    /\ finish_processing
    /\ UNCHANGED <<steamtools_exe, afterq, nruns>>
    /\ DownloaderUnchanged

\* on_cancel
OnCancel(r) ==
    /\ r \in popups
    /\ popups' = popups \ {r}
    /\ runs' = [runs EXCEPT ![r].closed = "cancel"]
    /\ finish_processing
    /\ UNCHANGED <<steamtools_exe, afterq, nruns>>
    /\ DownloaderUnchanged

\* the dialog closed with the window's close button: wait_window returns
\* and show_match_selection ends
ClosePopup(r) ==
    /\ r \in popups
    /\ popups' = popups \ {r}
    /\ runs' = [runs EXCEPT ![r].closed = "close"]
    /\ UNCHANGED <<is_processing, btn_enabled, steamtools_exe, afterq, nruns>>
    /\ DownloaderUnchanged

\* a download_thread without the return at line 623: it goes on to install
\* whatever the fetch returned
AfterFetchAlways(ret) == IF ret = "raise" THEN "finally" ELSE "copy"
\* download_thread: it goes on to install only after a fetch that returned
\* True
AfterFetch(ret) == IF ret = "True" THEN "copy" ELSE "finally"

\* download_thread: get_app_details (no effect) and download_appid_zip
Download(r, env) ==
    /\ runs[r].dl = "download"
    /\ LET d == download_appid_zip(runs[r].app_id, fs, env)
       IN  /\ fs' = d.fs
           /\ afterq' = afterq \o
                CASE d.ret = "raise" -> <<Callback("msgbox", r, "Fatal Error")>>
                  [] d.ret = "False" -> <<Callback("msgbox", r, "Download Failed"),
                                          Callback("finish_processing", r, 0)>>
                  [] d.ret = "True" -> <<>>
           /\ runs' = [runs EXCEPT ![r].dl = AfterFetch(d.ret),
                                   ![r].fetch_ret = d.ret,
                                   ![r].trace = Append(@, "Downloading")]
    /\ UNCHANGED <<games_cache, fetches, steam_folder, io, is_processing,
                   btn_enabled, steamtools_exe, nruns, popups>>

\* download_thread: copy_files_to_steam, its return value not looked at
Copy(r, env) ==
    /\ runs[r].dl = "copy"
    /\ LET c == copy_files_to_steam(fs, steam_folder, env)
       IN  /\ fs' = c.fs
           /\ steam_folder' = c.cache
           /\ afterq' = afterq \o
                (IF c.ret = "raise" THEN <<Callback("msgbox", r, "Fatal Error")>>
                 ELSE <<>>)
           /\ runs' = [runs EXCEPT
                         ![r].dl = IF c.ret = "raise" THEN "finally" ELSE "close",
                         ![r].copy_ret = c.ret,
                         ![r].copy_log = c.log,
                         ![r].trace = Append(@, "Installing")]
           /\ io' = [op |-> "install", run |-> r,
                     installed |-> c.attempted \ env.failing]
    /\ UNCHANGED <<games_cache, fetches, is_processing, btn_enabled,
                   steamtools_exe, nruns, popups>>

\* what can happen to the process a restart call runs or spawns: it works,
\* the executable is not there, or subprocess raises (taskkill missing or
\* timed out, Popen refused)
CloseOutcomes == {"ok", "error"}
SpawnOutcomes == {"ok", "missing", "error"}

\* close_steam without its try/except: the exception leaves the call
close_steam_unguarded(out) == IF out = "error" THEN "raise" ELSE "True"

\* close_steam: "True", or "False" when subprocess.run raised
close_steam(out) == IF out = "error" THEN "False" ELSE "True"

\* launch_steamtools: "False" when SteamTools.exe is unknown or gone, or
\* when Popen raised
launch_steamtools(exe, out) ==
    IF ~exe \/ out = "missing" THEN "False"
    ELSE IF out = "error" THEN "False"
    ELSE "True"

\* start_steam: [ret, cache]; "False" when no Steam folder is found, when
\* steam.exe is not in it, or when Popen raised
start_steam(cache, f, out) ==
    LET sf == find_steam_folder(cache, f)
    IN  [ret |-> IF ~sf.found THEN "False"
                 ELSE IF out = "missing" THEN "False"
                 ELSE IF out = "error" THEN "False"
                 ELSE "True",
         cache |-> sf.cache]

\* whether every restart call of run r so far, this one included, returned
\* False
Restarted(r, ret) ==
    [op |-> "restart", run |-> r,
     all_failed |-> /\ (io.op = "restart" /\ io.run = r) => io.all_failed
                    /\ ret = "False"]

\* download_thread: close_steam; its return value is not looked at, an
\* exception would end the thread in its except clause
CloseSteam(r, out) ==
    /\ runs[r].dl = "close"
    /\ LET ret == close_steam(out)
       IN  /\ runs' = [runs EXCEPT
                         ![r].dl = IF ret = "raise" THEN "finally" ELSE "launch",
                         ![r].trace = @ \o <<"RestartingServices", "close_steam">>]
           /\ afterq' = afterq \o
                (IF ret = "raise" THEN <<Callback("msgbox", r, "Fatal Error")>>
                 ELSE <<>>)
           /\ io' = Restarted(r, ret)
    /\ UNCHANGED <<games_cache, fetches, steam_folder, fs, is_processing,
                   btn_enabled, steamtools_exe, nruns, popups>>

\* download_thread: launch_steamtools
LaunchSteamTools(r, out) ==
    /\ runs[r].dl = "launch"
    /\ LET ret == launch_steamtools(steamtools_exe, out)
       IN  /\ runs' = [runs EXCEPT ![r].dl = "start",
                                   ![r].trace = Append(@, "launch_steamtools")]
           /\ io' = Restarted(r, ret)
    /\ UNCHANGED <<games_cache, fetches, steam_folder, fs, is_processing,
                   btn_enabled, steamtools_exe, afterq, nruns, popups>>

\* download_thread: start_steam, then "Complete!" and the Success box
StartSteam(r, out) ==
    /\ runs[r].dl = "start"
    /\ LET s == start_steam(steam_folder, fs, out)
       IN  /\ steam_folder' = s.cache
           /\ runs' = [runs EXCEPT ![r].dl = "finally",
                                   ![r].trace = @ \o <<"start_steam", "Done">>]
           /\ io' = Restarted(r, s.ret)
    /\ afterq' = Append(afterq, Callback("msgbox", r, "Success"))
    /\ UNCHANGED <<games_cache, fetches, fs, is_processing, btn_enabled,
                   steamtools_exe, nruns, popups>>

\* download_thread: the finally clause, after which the thread ends
Finally(r) ==
    /\ runs[r].dl = "finally"
    /\ runs' = [runs EXCEPT ![r].dl = "done"]
    /\ afterq' = Append(afterq, Callback("finish_processing", r, 0))
    /\ UNCHANGED <<is_processing, btn_enabled, steamtools_exe, nruns, popups>>
    /\ DownloaderUnchanged

Next ==
    \/ StartRejectedBusy
    \/ StartRejectedNoTools
    \/ \E query \in PipelineQueries : StartRejectedEmpty(query)
    \/ \E query \in PipelineQueries : StartAccepted(query)
    \/ RunCallback
    \/ \E r \in 1..nruns, resp \in PipelineResponses : Search(r, resp)
    \/ \E r \in 1..nruns, i \in 1..MaxMatches : OnSelect(r, i)
    \/ \E r \in 1..nruns : OnSelectError(r)
    \/ \E r \in 1..nruns : OnCancel(r)
    \/ \E r \in 1..nruns : ClosePopup(r)
    \/ \E r \in 1..nruns : \E env \in FetchEnvs(runs[r].app_id) : Download(r, env)
    \/ \E r \in 1..nruns : \E env \in InstallEnvs(fs) : Copy(r, env)
    \/ \E r \in 1..nruns, out \in CloseOutcomes : CloseSteam(r, out)
    \/ \E r \in 1..nruns, out \in SpawnOutcomes : LaunchSteamTools(r, out)
    \/ \E r \in 1..nruns, out \in SpawnOutcomes : StartSteam(r, out)
    \/ \E r \in 1..nruns : Finally(r)

Spec == Init /\ [][Next]_vars

-----------------------------------------------------------------------------
(* Properties of the downloader operations *)

Recognized(f) == f.ext \in {"lua", "st", "manifest"}
Fetched == io.op = "download_appid_zip"
Installed == io.op = "copy_files_to_steam"
LookedUp == io.op = "find_game"

\* what download_appid_zip returns for a Failure: a GET that fails
RetOfFetchFailure(app_id, f) ==
    download_appid_zip(app_id, f, [result |-> "error", extracted |-> {}]).ret

\* C4: a fetch answered 404 yields an outcome distinct from the one of a
\* Failure and leaves the filesystem as it was before the call: no
\* directory created, no file written.
C4_NotFoundRemoteDistinctAndClean ==
    (Fetched /\ io.env.result = "404" /\ io.ret # "raise") =>
        /\ io.ret # RetOfFetchFailure(io.app_id, io.before)
        /\ fs = io.before

\* the copy phase of copy_files_to_steam was reached
CopyPhase == Installed /\ io.attempted # {}

\* C5: the value the install operation returns tells a call in which at
\* least one copy failed (PartialFailure) from the same call with every
\* copy succeeding (Ok).
C5_PartialFailureReported ==
    (CopyPhase /\ io.env.failing # {}) =>
        io.ret # copy_files_to_steam(io.before, io.cache,
                                     [io.env EXCEPT !.failing = {}]).ret

\* the installation root was found and a recognized file is staged
RootAndFiles ==
    /\ Installed
    /\ io.cache \/ io.before.root
    /\ \E f \in io.before.staged : Recognized(f)

DestOf(f) == IF f.ext = "manifest" THEN fs.depot ELSE fs.stplug
NoneMisplaced ==
    /\ \A g \in fs.stplug \ io.before.stplug : g.ext \in {"lua", "st"}
    /\ \A g \in fs.depot \ io.before.depot : g.ext = "manifest"

RetOfRootNotFound ==
    copy_files_to_steam(
        [NoFs EXCEPT !.downloads = TRUE,
                     !.staged = {[dir |-> "", name |-> "a", ext |-> "lua", from |-> 1]}],
        FALSE,
        [failing |-> {}, mkdir_fail |-> "none", rmtree_fail |-> FALSE,
         subLast |-> TRUE]).ret

\* C7: with no .lua, .st or .manifest file staged the Installer's outcome
\* is neither the one of success nor the one of failure (of root not
\* found), and neither config/stplug-in nor depotcache is created.
C7_NothingToDoDistinct ==
    (Installed /\ \A f \in io.before.staged : ~Recognized(f)) =>
        /\ io.ret # "True"
        /\ io.ret # RetOfRootNotFound
        /\ fs.stplug_dir = io.before.stplug_dir
        /\ fs.depot_dir = io.before.depot_dir

\* C8: after copy_files_to_steam returns, with any outcome, the staging
\* directory no longer exists, provided the deletion does not fail.
C8_StagingRemoved ==
    (Installed /\ io.ret # "raise" /\ ~io.env.rmtree_fail) => ~fs.downloads

\* the query is looked up in the catalog: it is neither a store URL nor a
\* string of digits
FreeText(query) == ~IsAppUrl(query) /\ ~IsDigitStr(query)

\* C10 as stated: the catalog endpoint is fetched at most once; after a
\* fetch that failed no further fetch is issued and every free-text lookup
\* reports NotFound.
C10_SingleFetch ==
    /\ fetches <= 1
    /\ (LookedUp /\ io.failedBefore /\ FreeText(io.query)) =>
          io.fetched = 0 /\ io.ret.kind = "none"

\* C10 as amended: a free-text lookup fetches the catalog endpoint exactly
\* when the cache is empty at that moment, so at most one fetch populates
\* the cache and none follows it; a fetch that fails leaves the cache
\* empty and its lookup reports NotFound, and the next free-text lookup
\* fetches again.
C10_FetchWhileCacheEmpty ==
    LookedUp =>
        /\ io.loads <= 1
        /\ io.fetched = 1 <=> (FreeText(io.query) /\ DOMAIN io.before = {})
        /\ (io.fetched = 1 /\ io.resp.kind = "error") =>
              DOMAIN games_cache = {} /\ io.ret.kind = "none"
        /\ DOMAIN io.before # {} => games_cache = io.before

\* a free-text lookup after a failed fetch asks the endpoint again, and this
\* time the catalog is loaded and the name found
C10_Witness ==
    /\ LookedUp /\ io.failedBefore /\ FreeText(io.query)
    /\ io.fetched = 1 /\ fetches >= 2
    /\ io.ret.kind = "int"

\* a URL with an /app/<digits> segment: a host name (one of the two the code
\* knows, or another one) and a path after it
HostSyms == {"S", "C", "a", "B"}
UrlWithAppPath(query) == query[1] \in HostSyms /\ AppPathMatch(query) # <<>>

\* find_game answered with the id of the first /app/<digits> segment and
\* left the catalog alone
ResolvedFromPath ==
    /\ io.ret = RetInt(IntOf(AppPathMatch(io.query)))
    /\ io.fetched = 0
    /\ games_cache = io.before

\* C11 as stated: for every URL containing /app/<digits>, whatever its host
\* and the rest of its path, find_game yields ResolvedId(digits) without
\* catalog access.
C11_AnyUrlResolved ==
    (LookedUp /\ UrlWithAppPath(io.query)) => ResolvedFromPath

\* C11 as amended: for every query that contains store.steampowered.com or
\* steamcommunity.com and a segment /app/<digits>, wherever the two stand
\* and whatever surrounds them, find_game yields ResolvedId of the digits
\* of the first such segment without catalog access.
C11_SteamUrlResolved ==
    (/\ LookedUp
     /\ Contains(io.query, "S") \/ Contains(io.query, "C")
     /\ \E i \in 1..Len(io.query) - 1 :
           io.query[i] = "P" /\ IsDecimal(io.query[i + 1]))
    => ResolvedFromPath

\* a community URL with text after the id, resolved on an empty cache
C11_Witness ==
    /\ LookedUp
    /\ io.query = <<"C", "P", "1", "a">>
    /\ io.ret = RetInt(1)
    /\ io.before = EmptyCache /\ games_cache = EmptyCache /\ fetches = 0

\* C12: for every purely numeric query s (str.isdigit), find_game returns
\* ResolvedId(int(s)) and performs no catalog access: no request is issued
\* and games_cache is left unchanged, the cache empty or populated.
C12_NumericResolved ==
    (LookedUp /\ IsDigitStr(io.query)) =>
        /\ io.ret.kind = "int"
        /\ io.ret.id = IntOf(io.query)
        /\ io.fetched = 0
        /\ games_cache = io.before

\* the names of the catalog that difflib finds close to the query
NearMatches(query) == {x \in DOMAIN games_cache : IsClose(x, Lower(query))}
ExactKey(query) == Lower(query) \in DOMAIN games_cache

\* C13: a free-text query whose lowercased form is a key of the catalog
\* yields that entry's id as a ResolvedId, never a CandidateSet, whatever
\* near matches the catalog holds; a CandidateSet is returned exactly when
\* there is no exact key and at least one near match, and then it lists
\* near matches with their ids, a single one included.
C13_ExactBeforeFuzzy ==
    LookedUp =>
        /\ (FreeText(io.query) /\ ExactKey(io.query))
              => io.ret = RetInt(games_cache[Lower(io.query)])
        /\ io.ret.kind = "list" <=>
              (FreeText(io.query) /\ ~ExactKey(io.query) /\ NearMatches(io.query) # {})
        /\ io.ret.kind = "list" =>
              /\ Len(io.ret.matches) >= 1
              /\ Len(io.ret.matches) =
                    (IF Cardinality(NearMatches(io.query)) < MaxMatches
                     THEN Cardinality(NearMatches(io.query)) ELSE MaxMatches)
              /\ \A i \in 1..Len(io.ret.matches) :
                    /\ io.ret.matches[i][1] \in NearMatches(io.query)
                    /\ io.ret.matches[i][2] = games_cache[io.ret.matches[i][1]]

\* a name of the catalog typed with a capital letter, another name of the
\* catalog being close to it: the id is returned, not a list
C13_Witness ==
    /\ LookedUp /\ FreeText(io.query) /\ ExactKey(io.query)
    /\ io.query # Lower(io.query)
    /\ NearMatches(io.query) \ {Lower(io.query)} # {}
    /\ io.ret.kind = "int"

-----------------------------------------------------------------------------
(* Properties of the pipeline *)

Pending(r, cbs) == \E i \in 1..Len(afterq) : afterq[i].run = r /\ afterq[i].cb \in cbs

\* a worker of run r has not finished: its search thread runs, the callback
\* that hands it on is scheduled, its dialog is open, or its download
\* thread runs
RunActive(r) ==
    \/ runs[r].search = "running"
    \/ Pending(r, {"download_thread_start", "show_match_selection"})
    \/ r \in popups
    \/ runs[r].dl \notin {"none", "done"}

ActiveRuns == {r \in 1..nruns : RunActive(r)}

\* C1: at most one pipeline run is active: while a run's worker has not
\* finished no other start request has been accepted.
C1_OneActiveRun == Cardinality(ActiveRuns) <= 1

\* nothing is left to happen but a new start request
Quiescent == nruns > 0 /\ ActiveRuns = {} /\ afterq = <<>>

\* C2: every accepted run ends with the pipeline back in Idle: once the
\* run's workers have finished and its callbacks have run, is_processing
\* is cleared and the Install button enabled.
C2_BackToIdle == Quiescent => (~is_processing /\ btn_enabled)

\* the stage or call that may directly follow another in a run
Follows(a, b) ==
    \/ a = "Searching" /\ b \in {"AwaitingSelection", "Resolved"}
    \/ a = "AwaitingSelection" /\ b = "Resolved"
    \/ a = "Resolved" /\ b = "Downloading"
    \/ a = "Downloading" /\ b = "Installing"
    \/ a = "Installing" /\ b = "RestartingServices"
    \/ a = "RestartingServices" /\ b = "close_steam"
    \/ a = "close_steam" /\ b = "launch_steamtools"
    \/ a = "launch_steamtools" /\ b = "start_steam"
    \/ a = "start_steam" /\ b = "Done"

Entered(r, stage) == \E i \in 1..Len(runs[r].trace) : runs[r].trace[i] = stage

AfterFetchStages ==
    {"Installing", "RestartingServices", "close_steam", "launch_steamtools",
     "start_steam", "Done"}

\* C3: a run enters its stages only in the order Searching,
\* (AwaitingSelection), Resolved, Downloading, Installing,
\* RestartingServices (close_steam, launch_steamtools, start_steam), Done,
\* each once; the fetch starts only for an identifier resolved directly or
\* confirmed in the dialog; and after a fetch that did not return True, or
\* a dialog not confirmed, the run neither installs nor restarts anything.
C3_StagesInOrder ==
    \A r \in 1..nruns :
        LET t == runs[r].trace
        IN  /\ t[1] = "Searching"
            /\ \A i \in 2..Len(t) : Follows(t[i - 1], t[i])
            /\ (Entered(r, "AwaitingSelection") /\ Entered(r, "Resolved"))
                  => runs[r].closed = "select"
            /\ runs[r].closed \in {"cancel", "close", "error"}
                  => ~Entered(r, "Resolved")
            /\ Entered(r, "Downloading") => runs[r].fetch_ret # ""
            /\ runs[r].fetch_ret \in {"False", "raise"}
                  => \A s \in AfterFetchStages : ~Entered(r, s)

\* one run ended on a failed fetch, and another was cancelled in the dialog
C3_Witness ==
    /\ \E r \in 1..nruns :
          runs[r].fetch_ret = "False" /\ runs[r].dl = "done"
    /\ \E r \in 1..nruns : runs[r].closed = "cancel"

\* copy_files_to_steam of run r did not find the installation root
RootNotFound(r) ==
    /\ Len(runs[r].copy_log) > 0
    /\ runs[r].copy_log[Len(runs[r].copy_log)] = "Could not find Steam installation."

\* C9: a run whose install did not find the installation root does not go
\* on to restart the services and does not report success.
C9_RootNotFoundEndsRun ==
    \A r \in 1..nruns :
        RootNotFound(r) =>
            /\ ~Entered(r, "close_steam")
            /\ ~Entered(r, "Done")
            /\ "Success" \notin runs[r].shown

\* a Fatal Error box of run r is shown or about to be
FatalError(r) ==
    \/ "Fatal Error" \in runs[r].shown
    \/ \E i \in 1..Len(afterq) :
          afterq[i].run = r /\ afterq[i].cb = "msgbox" /\ afterq[i].arg = "Fatal Error"

RestartAndDone ==
    <<"RestartingServices", "close_steam", "launch_steamtools", "start_steam", "Done">>

\* run r reached Done and all it scheduled has run
Completed(r) ==
    /\ Entered(r, "Done")
    /\ runs[r].dl = "done"
    /\ \A i \in 1..Len(afterq) : afterq[i].run # r

\* C14: a failure of close_steam, launch_steamtools or start_steam never
\* raises to download_thread and is no pipeline failure: whatever the three
\* return, a run that starts the restart calls all three in the order
\* close_steam, launch_steamtools, start_steam, reaches Done without a
\* Fatal Error, and then resets to Idle (seen on the latest run, after
\* which no request was accepted).
C14_RestartNeverFails ==
    \A r \in 1..nruns :
        LET t == runs[r].trace
        IN  /\ Entered(r, "close_steam") => ~FatalError(r)
            /\ (Entered(r, "close_steam") /\ runs[r].dl \in {"finally", "done"}) =>
                  /\ Len(t) >= 5
                  /\ SubSeq(t, Len(t) - 4, Len(t)) = RestartAndDone
            /\ (Completed(r) /\ r = nruns) => (~is_processing /\ btn_enabled)

\* all three restart calls of a run failed, and the run is Done and the
\* pipeline Idle
C14_Witness ==
    \E r \in 1..nruns :
        /\ io.op = "restart" /\ io.run = r /\ io.all_failed
        /\ Completed(r) /\ r = nruns
        /\ "Success" \in runs[r].shown
        /\ ~is_processing /\ btn_enabled

\* C15: runs do not leak files into one another through the staging
\* directory: every file a run's install copies into config/stplug-in or
\* depotcache was extracted from the archive fetched for that run's
\* identifier; a file left in the staging directory by an earlier run is
\* never installed by a later one.
C15_NoLeakBetweenRuns ==
    io.op = "install" =>
        \A f \in io.installed : f.from = runs[io.run].app_id

=============================================================================
